---- MODULE Spec2Model ----
(***************************************************************************)
(* Model of src/app.py: a Streamlit page with a Black-Scholes pricing tab  *)
(* and a Monte Carlo Value-at-Risk tab.                                     *)
(*                                                                         *)
(* A Streamlit script is run top to bottom once per user interaction.  The *)
(* widget values persist between runs; every other name of the script is   *)
(* rebuilt by each run.  One run of the script whose "Calculate VaR"       *)
(* button is not pressed is one action; a run whose button is pressed is   *)
(* ClickCalculate, one LoopStep per iteration of the simulation loop, and  *)
(* Finish.                                                                  *)
(*                                                                         *)
(* Number representation.  Money is in 1/10000 dollar, T in tenths of a    *)
(* year, r and vol in thousandths, confidence in percent.  Scenario        *)
(* values, mean and variance are exact rationals (floating-point rounding  *)
(* of a sum or a product is not modelled); the quantile index              *)
(* int((1 - confidence) * simulations) is computed bit for bit as IEEE-754 *)
(* binary64 does.  The pricer's outputs are tracked by their floating-     *)
(* point class (finite, +inf, -inf, nan).                                  *)
(*                                                                         *)
(* Inputs range over S > 0, K > 0, T >= 0, vol >= 0, portfolio value > 0,  *)
(* horizon > 0 (a perfect square, so that sqrt(days) is exact) and any     *)
(* integer simulation count, zero and negative included.  A uniform draw   *)
(* is taken from points where the Box-Muller transform is exact.           *)
(***************************************************************************)
EXTENDS Integers, Sequences, FiniteSets, Bags

VARIABLES
    S, K, T, r, vol,                \* tab 1 widgets (lines 79-87)
    portfolio_value, days,          \* tab 2 widgets (lines 139, 141)
    confidence, simulations,        \* tab 2 widgets (lines 143, 145)
    use_custom_tickers,             \* checkbox (line 149)
    tickers_input,                  \* text input (line 152), a sequence of characters
    ticker_list,                    \* lines 157, 160
    pc,                             \* "idle": page rendered; "loop": inside lines 170-178
    returns,                        \* lines 169, 178, 180-181
    draws,                          \* the (u1, u2) pairs the random source gave this run
    var_index, var_value,           \* lines 183-184
    mean_return, std_dev,           \* lines 185-186
    page,                           \* what the last run of the script rendered
    runs,                           \* VaR computations counted by the comparing sessions
    refRun                          \* a completed VaR computation kept for comparison

vars == <<S, K, T, r, vol, portfolio_value, days, confidence, simulations,
          use_custom_tickers, tickers_input, ticker_list, pc, returns, draws,
          var_index, var_value, mean_return, std_dev, page, runs, refRun>>

None == "None"

-----------------------------------------------------------------------------
(* Bounds of the model *)

\* largest simulation count of the interactive session
MaxSim == 2
\* largest simulation count of the large-sample runs
MaxTailSim == 11
\* largest simulation count of the sessions that compare two computations
MaxPairSim == 2
\* the count of VaR computations saturates here
MaxRuns == 2

-----------------------------------------------------------------------------
(* Program constants *)

\* portfolio_return = 0.0003, in 1/10000
PortfolioReturnE4 == 3
\* portfolio_std_dev = 0.008, in 1/10000
PortfolioStdDevE4 == 80

\* the selectbox options 0.90, 0.95, 0.99, in percent
ConfidenceOptions == {90, 95, 99}

\* ['SPY', 'BND', 'GLD', 'QQQ', 'VTI']
DefaultTickers ==
    << <<"S", "P", "Y">>, <<"B", "N", "D">>, <<"G", "L", "D">>,
       <<"Q", "Q", "Q">>, <<"V", "T", "I">> >>

\* value="SPY,BND,GLD,QQQ,VTI"
DefaultTickersText ==
    <<"S", "P", "Y", ",", "B", "N", "D", ",", "G", "L", "D", ",",
      "Q", "Q", "Q", ",", "V", "T", "I">>

-----------------------------------------------------------------------------
(* Arithmetic helpers *)

Sgn(x) == IF x > 0 THEN 1 ELSE IF x < 0 THEN -1 ELSE 0

Abs(x) == IF x < 0 THEN -x ELSE x

RECURSIVE Pow2(_)
Pow2(n) == IF n = 0 THEN 1 ELSE 2 * Pow2(n - 1)

RECURSIVE BitLen(_)
BitLen(x) == IF x = 0 THEN 0 ELSE 1 + BitLen(x \div 2)

\* np.sqrt(days) for a perfect square
Sqrt(n) == CHOOSE s \in 0..n : s * s = n

RECURSIVE SumSeq(_)
SumSeq(s) == IF s = <<>> THEN 0 ELSE Head(s) + SumSeq(Tail(s))

RECURSIVE SumSquares(_)
SumSquares(s) == IF s = <<>> THEN 0 ELSE Head(s) * Head(s) + SumSquares(Tail(s))

RECURSIVE SeqToBag(_)
SeqToBag(s) == IF s = <<>> THEN EmptyBag ELSE SetToBag({Head(s)}) (+) SeqToBag(Tail(s))

-----------------------------------------------------------------------------
(* Black-Scholes pricer, lines 57-67 *)

\* 2*10^7 * np.log(S / K), for the spot and strike prices of PriceOptions
LnTimes2e7(s, k) ==
    CASE s = k -> 0
      [] s = 45 /\ k = 40 -> 2355661
      [] s = 40 /\ k = 45 -> -2355661

\* sign of np.log(S / K) + (r + 0.5 * vol ** 2) * T, scaled by 2*10^7
\* (T in tenths, r and vol in thousandths)
NumeratorSign(s, k, t, rr, v) == Sgn(LnTimes2e7(s, k) + (2000 * rr + v * v) * t)

\* vol * np.sqrt(T) for vol >= 0 and T >= 0: zero or positive
DenominatorIsZero(t, v) == v = 0 \/ t = 0

\* numpy float64 division: x / 0.0 is +inf, -inf or nan (a warning, no exception)
Float64Divide(numSign, denIsZero) ==
    IF ~denIsZero THEN "finite"
    ELSE CASE numSign = 1 -> "+inf"
           [] numSign = -1 -> "-inf"
           [] numSign = 0 -> "nan"

\* norm.cdf: 1.0 at +inf, 0.0 at -inf, nan at nan
norm_cdf(x) == IF x = "nan" THEN "nan" ELSE "finite"

\* a product, sum or difference of operands that are finite or nan
FloatCombine(a, b) == IF a = "nan" \/ b = "nan" THEN "nan" ELSE "finite"

calculate_black_scholes(s, k, t, rr, v) ==
    LET d1 == Float64Divide(NumeratorSign(s, k, t, rr, v), DenominatorIsZero(t, v))
        \* d1 - vol * np.sqrt(T): an infinity or a nan stays what it is
        d2 == d1
        call_price == FloatCombine(norm_cdf(d1), norm_cdf(d2))
        put_price == FloatCombine(norm_cdf(d2), norm_cdf(d1))
    IN  [d1 |-> d1, d2 |-> d2, call_price |-> call_price, put_price |-> put_price]

-----------------------------------------------------------------------------
(* The quantile index, line 183, in IEEE-754 binary64 *)

LimbBase == Pow2(18)

\* The double 1 - confidence, as mant * 2^(-shift) with a 53 bit mantissa given in
\* three limbs of 18 bits, most significant first.  0.90, 0.95 and 0.99 lie in
\* [0.5, 2], so the subtraction is exact.
\*   1 - 0.90 = 0x1.9999999999998p-4,  1 - 0.95 = 0x1.99999999999a0p-5,
\*   1 - 0.99 = 0x1.47ae147ae1480p-7
OneMinus(c) ==
    CASE c = 90 -> [mant |-> <<104857, 157286, 104856>>, shift |-> 56]
      [] c = 95 -> [mant |-> <<104857, 157286, 104864>>, shift |-> 57]
      [] c = 99 -> [mant |-> <<83886, 20971, 136320>>, shift |-> 59]

\* mant * n, exact, as three limbs (the top limb unbounded); 0 < n < 2^12
MulLimbs(mant, n) ==
    LET t0 == mant[3] * n
        t1 == mant[2] * n + t0 \div LimbBase
        t2 == mant[1] * n + t1 \div LimbBase
    IN  <<t2, t1 % LimbBase, t0 % LimbBase>>

\* round to nearest, ties to even, to 53 significant bits
Round53(p) ==
    LET d == BitLen(p[1]) + 36 - 53
    IN  IF d <= 0 THEN p
        ELSE LET unit == Pow2(d)
                 rest == p[3] % unit
                 kept == p[3] \div unit
                 up == IF rest * 2 > unit \/ (rest * 2 = unit /\ kept % 2 = 1) THEN 1 ELSE 0
                 l0 == (kept + up) * unit
                 l1 == p[2] + l0 \div LimbBase
             IN  <<p[1] + l1 \div LimbBase, l1 % LimbBase, l0 % LimbBase>>

\* A variant that takes the upper tail: int(confidence * simulations)
VarIndexUpperTail(c, n) == (c * n) \div 100

\* int((1 - confidence) * simulations): the product rounded to a double, then
\* truncated toward zero
VarIndex(c, n) ==
    IF n = 0 THEN 0
    ELSE LET x == OneMinus(c)
             p == Round53(MulLimbs(x.mant, Abs(n)))
         IN  Sgn(n) * (p[1] \div Pow2(x.shift - 36))

-----------------------------------------------------------------------------
(* The simulation, lines 170-178 *)

\* A uniform draw u1 is exp(-k*k/2) for k in U1Points, so that
\* np.sqrt(-2 * np.log(u1)) = k
Radius(u1) == u1

\* A uniform draw u2 is q/4 for q in U2Points: np.cos(2 * np.pi * u2)
CosTurn(u2) == CASE u2 = 0 -> 1 [] u2 = 1 -> 0 [] u2 = 2 -> -1 [] u2 = 3 -> 0

\* Box-Muller transform, line 174
BoxMuller(u1, u2) == Radius(u1) * CosTurn(u2)

\* lines 176-177, in 1/10000 dollar
ScenarioReturn(pv, d, z) ==
    pv * PortfolioReturnE4 * d + pv * PortfolioStdDevE4 * z * Sqrt(d)

\* A variant that adds up one such scenario per ticker of the portfolio
ScenarioOfPerTicker(u1, u2) ==
    Len(ticker_list) * ScenarioReturn(portfolio_value, days, BoxMuller(u1, u2))

\* the scenario of one iteration of the loop
ScenarioOf(u1, u2) == ScenarioReturn(portfolio_value, days, BoxMuller(u1, u2))

-----------------------------------------------------------------------------
(* returns.sort(), line 181 *)

RECURSIVE InsertSorted(_, _)
InsertSorted(x, s) ==
    IF s = <<>> THEN <<x>>
    ELSE IF x <= Head(s) THEN <<x>> \o s
    ELSE <<Head(s)>> \o InsertSorted(x, Tail(s))

\* A variant that sorts the distinct values: sorted(set(returns))
RECURSIVE SortAscendingDistinct(_)
SortAscendingDistinct(s) ==
    IF s = <<>> THEN <<>>
    ELSE LET rest == SortAscendingDistinct(Tail(s))
         IN  IF \E i \in 1..Len(rest) : rest[i] = Head(s) THEN rest
             ELSE InsertSorted(Head(s), rest)

RECURSIVE SortAscending(_)
SortAscending(s) ==
    IF s = <<>> THEN <<>> ELSE InsertSorted(Head(s), SortAscending(Tail(s)))

\* returns.mean(): sum / n, kept as a fraction
Mean(s) == [num |-> SumSeq(s), den |-> Len(s)]

\* returns.std(): the population standard deviation, kept as the variance
\* (n * sum(x^2) - sum(x)^2) / n^2 whose square root it is
StdDev(s) ==
    [var_num |-> Len(s) * SumSquares(s) - SumSeq(s) * SumSeq(s),
     var_den |-> Len(s) * Len(s)]

-----------------------------------------------------------------------------
(* The ticker text, line 157 *)

TickerChars == {"A", ",", " "}

\* tickers_input.split(',')
RECURSIVE SplitComma(_, _)
SplitComma(text, cur) ==
    IF text = <<>> THEN <<cur>>
    ELSE IF Head(text) = "," THEN <<cur>> \o SplitComma(Tail(text), <<>>)
    ELSE SplitComma(Tail(text), Append(cur, Head(text)))

RECURSIVE StripLeft(_)
StripLeft(s) == IF s # <<>> /\ Head(s) = " " THEN StripLeft(Tail(s)) ELSE s

RECURSIVE StripRight(_)
StripRight(s) ==
    IF s # <<>> /\ s[Len(s)] = " " THEN StripRight(SubSeq(s, 1, Len(s) - 1)) ELSE s

\* t.strip()
Strip(s) == StripRight(StripLeft(s))

RECURSIVE StripNonEmpty(_)
StripNonEmpty(parts) ==
    IF parts = <<>> THEN <<>>
    ELSE IF Strip(Head(parts)) # <<>>
         THEN <<Strip(Head(parts))>> \o StripNonEmpty(Tail(parts))
         ELSE StripNonEmpty(Tail(parts))

\* [t.strip() for t in tickers_input.split(',') if t.strip()]
ParseTickers(text) == StripNonEmpty(SplitComma(text, <<>>))

\* lines 151-160
TickerList(custom, text) == IF custom THEN ParseTickers(text) ELSE DefaultTickers

-----------------------------------------------------------------------------
(* Input domains *)

\* the interactive session
SessionDom ==
    [S |-> {45}, K |-> {40, 45}, T |-> {0, 5}, r |-> {100}, vol |-> {0, 200},
     pv |-> {1, 2}, days |-> {1, 4}, conf |-> ConfidenceOptions,
     sims |-> (-1)..MaxSim, texts |-> {<<>>, <<"A", ",", " ">>},
     u1 |-> {1, 2}, u2 |-> {1, 2}]

\* large samples: the quantile index leaves position 0
TailDom ==
    [pv |-> {1}, days |-> {4}, conf |-> ConfidenceOptions,
     sims |-> (MaxTailSim - 1)..MaxTailSim, u1 |-> {1}, u2 |-> {0, 2}]

\* two computations of one session compared
PairDom ==
    [pv |-> {1}, days |-> {4}, conf |-> {95}, sims |-> 1..MaxPairSim,
     texts |-> {<<>>, <<"A">>, <<" ", "A", ",", "A", ",">>},
     u1 |-> {1, 2}, u2 |-> {0}]

-----------------------------------------------------------------------------
(* One run of the script *)

PriceInputs == <<S, K, T, r, vol>>

VarInputs == <<portfolio_value, days, confidence, simulations>>

NoVar == [kind |-> "none"]

NoRun == [kind |-> "none"]

\* What lines 90-130 render: the pricer's four outputs.  "inputs" records the
\* arguments they were computed from.
PricingSection(s, k, t, rr, v) ==
    [kind |-> "outputs", inputs |-> <<s, k, t, rr, v>>,
     out |-> calculate_black_scholes(s, k, t, rr, v)]

\* the st.info line of line 158, shown with custom tickers only
TickerInfo(custom, text) == IF custom THEN <<TickerList(custom, text)>> ELSE <<>>

\* the page a run of the script renders; var is its VaR section
Page(s, k, t, rr, v, custom, text, var) ==
    [pricing |-> PricingSection(s, k, t, rr, v),
     info |-> TickerInfo(custom, text),
     var |-> var]

\* A variant that keeps the VaR section of the page as it was
PlainRunKeepsVarSection(s, k, t, rr, v, pv, d, c, n, custom, text) ==
    /\ S' = s /\ K' = k /\ T' = t /\ r' = rr /\ vol' = v
    /\ portfolio_value' = pv /\ days' = d /\ confidence' = c /\ simulations' = n
    /\ use_custom_tickers' = custom /\ tickers_input' = text
    /\ ticker_list' = TickerList(custom, text)
    /\ page' = Page(s, k, t, rr, v, custom, text, page.var)
    /\ pc' = "idle"
    /\ returns' = <<>> /\ draws' = <<>>
    /\ var_index' = None /\ var_value' = None
    /\ mean_return' = None /\ std_dev' = None
    /\ UNCHANGED <<runs, refRun>>

\* A run of the script with the button not pressed: st.button returns False and
\* lines 164-250 are skipped, so no VaR section is rendered.
PlainRun(s, k, t, rr, v, pv, d, c, n, custom, text) ==
    /\ S' = s /\ K' = k /\ T' = t /\ r' = rr /\ vol' = v
    /\ portfolio_value' = pv /\ days' = d /\ confidence' = c /\ simulations' = n
    /\ use_custom_tickers' = custom /\ tickers_input' = text
    /\ ticker_list' = TickerList(custom, text)
    /\ page' = Page(s, k, t, rr, v, custom, text, NoVar)
    /\ pc' = "idle"
    /\ returns' = <<>> /\ draws' = <<>>
    /\ var_index' = None /\ var_value' = None
    /\ mean_return' = None /\ std_dev' = None
    /\ UNCHANGED <<runs, refRun>>

OneDiffers(a, b) == Cardinality({i \in DOMAIN a : a[i] # b[i]}) = 1

\* the user changes one of the number inputs of tab 1 (lines 79-87)
ChangePricingInput(dom) ==
    /\ pc = "idle"
    /\ \E s \in dom.S, k \in dom.K, t \in dom.T, rr \in dom.r, v \in dom.vol :
         /\ OneDiffers(<<s, k, t, rr, v>>, PriceInputs)
         /\ PlainRun(s, k, t, rr, v, portfolio_value, days, confidence, simulations,
                     use_custom_tickers, tickers_input)

\* the user changes one of the inputs of tab 2 (lines 139-145)
ChangeVarInput(dom) ==
    /\ pc = "idle"
    /\ \E pv \in dom.pv, d \in dom.days, c \in dom.conf, n \in dom.sims :
         /\ OneDiffers(<<pv, d, c, n>>, VarInputs)
         /\ PlainRun(S, K, T, r, vol, pv, d, c, n, use_custom_tickers, tickers_input)

\* the user ticks or unticks the checkbox (line 149) or edits the text (line 152);
\* the text input exists only while the box is ticked and starts from its default
ChangeTickers(dom) ==
    /\ pc = "idle"
    /\ \/ PlainRun(S, K, T, r, vol, portfolio_value, days, confidence, simulations,
                   ~use_custom_tickers, DefaultTickersText)
       \/ /\ use_custom_tickers
          /\ \E text \in (dom.texts \cup {DefaultTickersText}) \ {tickers_input} :
               PlainRun(S, K, T, r, vol, portfolio_value, days, confidence,
                        simulations, TRUE, text)

\* A variant that does not empty the sample: "returns = []" left out
ClickCalculateKeepsSample(log) ==
    /\ pc = "idle"
    /\ pc' = "loop"
    /\ ticker_list' = TickerList(use_custom_tickers, tickers_input)
    /\ page' = Page(S, K, T, r, vol, use_custom_tickers, tickers_input, NoVar)
    /\ draws' = <<>>
    /\ var_index' = None /\ var_value' = None
    /\ mean_return' = None /\ std_dev' = None
    /\ runs' = IF log /\ runs < MaxRuns THEN runs + 1 ELSE runs
    /\ UNCHANGED <<S, K, T, r, vol, portfolio_value, days, confidence, simulations,
                   use_custom_tickers, tickers_input, refRun, returns>>

\* The user presses "Calculate VaR": the script runs lines 79-169
ClickCalculate(log) ==
    /\ pc = "idle"
    /\ pc' = "loop"
    /\ ticker_list' = TickerList(use_custom_tickers, tickers_input)
    /\ page' = Page(S, K, T, r, vol, use_custom_tickers, tickers_input, NoVar)
    /\ returns' = <<>> /\ draws' = <<>>
    /\ var_index' = None /\ var_value' = None
    /\ mean_return' = None /\ std_dev' = None
    /\ runs' = IF log /\ runs < MaxRuns THEN runs + 1 ELSE runs
    /\ UNCHANGED <<S, K, T, r, vol, portfolio_value, days, confidence, simulations,
                   use_custom_tickers, tickers_input, refRun>>

\* one iteration of "for _ in range(simulations)", lines 170-178
LoopStep(dom) ==
    /\ pc = "loop"
    /\ Len(returns) < simulations
    /\ \E u1 \in dom.u1, u2 \in dom.u2 :
         /\ returns' = Append(returns, ScenarioOf(u1, u2))
         /\ draws' = Append(draws, <<u1, u2>>)
    /\ UNCHANGED <<S, K, T, r, vol, portfolio_value, days, confidence, simulations,
                   use_custom_tickers, tickers_input, ticker_list, pc,
                   var_index, var_value, mean_return, std_dev, page, runs, refRun>>

\* returns[var_index] of a numpy array of length n: a negative index counts from
\* the end, an index outside -n..n-1 raises IndexError
IndexInRange(idx, n) == -n <= idx /\ idx < n

Position(idx, n) == IF idx >= 0 THEN idx + 1 ELSE n + idx + 1

\* lines 188-250: the three metrics, the holdings (if ticker_list is not empty),
\* the histogram of the sample and the VaR line
VarSection(sorted, value, mean, std) ==
    [kind |-> "results", inputs |-> VarInputs,
     var_value |-> value, confidence |-> confidence,
     mean_return |-> mean, std_dev |-> std,
     holdings |-> IF ticker_list # <<>> THEN <<ticker_list>> ELSE <<>>,
     histogram |-> sorted, var_line |-> -value]

RunRecord(outcome) ==
    [kind |-> "run", number |-> runs, inputs |-> VarInputs, tickers |-> ticker_list,
     draws |-> draws, outcome |-> outcome]

\* The loop is over: lines 180-250.  An IndexError at line 184 ends the run before
\* anything of the VaR section is rendered.
Finish(log) ==
    /\ pc = "loop"
    /\ ~(Len(returns) < simulations)
    /\ pc' = "idle"
    /\ LET sorted == SortAscending(returns)
           idx == VarIndex(confidence, simulations)
           ok == IndexInRange(idx, Len(sorted))
           value == -sorted[Position(idx, Len(sorted))]
           section == IF ok THEN VarSection(sorted, value, Mean(sorted), StdDev(sorted))
                      ELSE [kind |-> "IndexError"]
       IN  /\ returns' = sorted
           /\ var_index' = idx
           /\ var_value' = IF ok THEN value ELSE None
           /\ mean_return' = IF ok THEN Mean(sorted) ELSE None
           /\ std_dev' = IF ok THEN StdDev(sorted) ELSE None
           /\ page' = [page EXCEPT !.var = section]
           /\ refRun' \in IF log /\ refRun.kind = "none"
                          THEN {refRun, RunRecord(section)} ELSE {refRun}
    /\ UNCHANGED <<S, K, T, r, vol, portfolio_value, days, confidence, simulations,
                   use_custom_tickers, tickers_input, ticker_list, draws, runs>>

-----------------------------------------------------------------------------
(* Specifications *)

\* The first run of the script.  The widget defaults 1000000, 20 and 10000 lie
\* outside the bounds; the session starts from values inside them.
Init ==
    /\ S = 45 /\ K = 40 /\ T = 5 /\ r = 100 /\ vol = 200
    /\ portfolio_value = 1 /\ days = 4 /\ confidence = 95 /\ simulations = 1
    /\ use_custom_tickers = FALSE /\ tickers_input = DefaultTickersText
    /\ ticker_list = DefaultTickers
    /\ page = Page(45, 40, 5, 100, 200, FALSE, DefaultTickersText, NoVar)
    /\ pc = "idle"
    /\ returns = <<>> /\ draws = <<>>
    /\ var_index = None /\ var_value = None
    /\ mean_return = None /\ std_dev = None
    /\ runs = 0 /\ refRun = NoRun

Next ==
    \/ ChangePricingInput(SessionDom)
    \/ ChangeVarInput(SessionDom)
    \/ ChangeTickers(SessionDom)
    \/ ClickCalculate(FALSE)
    \/ LoopStep(SessionDom)
    \/ Finish(FALSE)

Spec == Init /\ [][Next]_vars

TailNext ==
    \/ ChangeVarInput(TailDom)
    \/ ClickCalculate(FALSE)
    \/ LoopStep(TailDom)
    \/ Finish(FALSE)

TailSpec == Init /\ [][TailNext]_vars

PairNext ==
    \/ ChangeVarInput(PairDom)
    \/ ChangeTickers(PairDom)
    \/ ClickCalculate(TRUE)
    \/ LoopStep(PairDom)
    \/ Finish(TRUE)

PairSpec == Init /\ [][PairNext]_vars

-----------------------------------------------------------------------------
(* Properties *)

\* the page is rendered and shows the VaR section of a completed computation
ResultsShown == pc = "idle" /\ page.var.kind = "results"

\* a VaR computation has ended, with results or with an error
ComputationEnded == pc = "idle" /\ page.var.kind # "none"

\* the scenario values of this run, in the order the loop generated them
Generated == [i \in 1..Len(draws) |-> ScenarioOf(draws[i][1], draws[i][2])]

\* C1: after a VaR computation with simulations = n >= 1, the sample handed to the
\* percentile step and to the histogram has exactly n elements, is sorted
\* ascending, and is a permutation of the n values the loop generated.
C1_SampleSortedPermutation ==
    (ComputationEnded /\ simulations >= 1) =>
        /\ page.var.kind = "results"
        /\ Len(returns) = simulations
        /\ \A i \in 1..(Len(returns) - 1) : returns[i] <= returns[i + 1]
        /\ Len(draws) = simulations
        /\ SeqToBag(returns) = SeqToBag(Generated)
        /\ page.var.histogram = returns

\* a computation whose loop generated a larger value before a smaller one
C1_Witness ==
    /\ ResultsShown
    /\ simulations >= 2
    /\ Generated[1] > Generated[2]
    /\ returns # Generated

Min(a, b) == IF a < b THEN a ELSE b

Max(a, b) == IF a > b THEN a ELSE b

\* C2: for n >= 1 and each confidence level c, the quantile index used is
\* floor((1 - c) * n) clamped to [0, n-1], a valid position of the sorted sample,
\* and the reported VaR is the negated sample element at that index.
C2_QuantileIndex ==
    (ResultsShown /\ simulations >= 1) =>
        /\ var_index = Max(0, Min(simulations - 1,
                                  ((100 - confidence) * simulations) \div 100))
        /\ var_index \in 0..(simulations - 1)
        /\ var_value = -returns[var_index + 1]

\* the VaR lines 183-184 report for this sample at confidence c
VaRAt(c) == -returns[Position(VarIndex(c, simulations), Len(returns))]

\* C3: for one and the same sample, a higher confidence level never gives a lower
\* VaR, the reported VaR being the one of the selected level.
C3_VaRMonotoneInConfidence ==
    ResultsShown =>
        /\ var_value = VaRAt(confidence)
        /\ \A c1, c2 \in ConfidenceOptions : c1 <= c2 => VaRAt(c1) <= VaRAt(c2)

\* a sample on which the 90% and the 99% VaR differ
C3_Witness == ResultsShown /\ VaRAt(90) < VaRAt(99) /\ VarIndex(90, simulations) > 0

\* C4: a VaR computation with simulations <= 0 ends in an InvalidInputError, and
\* no VaR, mean, standard deviation or sample is rendered.
C4_NonPositiveCountRejected ==
    (ComputationEnded /\ simulations <= 0) =>
        /\ page.var = [kind |-> "InvalidInputError"]
        /\ var_value = None /\ mean_return = None /\ std_dev = None

HasNanOrInf(out) ==
    \E f \in {"d1", "d2", "call_price", "put_price"} : out[f] \in {"nan", "+inf", "-inf"}

\* C6: with T = 0 or vol = 0 the pricer fails with an explicit error; no tuple
\* holding NaN or Inf for d1, d2, callPrice or putPrice is returned and rendered.
C6_DegeneratePricingRejected ==
    (T = 0 \/ vol = 0) =>
        /\ page.pricing.kind = "error"
        /\ ~HasNanOrInf(page.pricing.out)

\* the run kept for comparison had the inputs and the draws of the run just ended
SameComputation ==
    /\ ComputationEnded
    /\ refRun.kind = "run"
    /\ refRun.inputs = VarInputs
    /\ refRun.draws = draws

\* C7: two computations that see the same portfolio value, horizon, confidence
\* level, simulation count and draws both complete and give the same VaR, mean,
\* standard deviation and sorted sample, whatever their ticker lists.
C7_TickersHaveNoEffect ==
    SameComputation =>
        /\ page.var.kind = "results" /\ refRun.outcome.kind = "results"
        /\ page.var.var_value = refRun.outcome.var_value
        /\ page.var.mean_return = refRun.outcome.mean_return
        /\ page.var.std_dev = refRun.outcome.std_dev
        /\ page.var.histogram = refRun.outcome.histogram

\* two computations with equal inputs and draws, one of them with no ticker at all
C7_Witness ==
    /\ SameComputation
    /\ refRun.number < runs
    /\ refRun.tickers # ticker_list
    /\ (refRun.tickers = <<>> \/ ticker_list = <<>>)
    /\ simulations >= 2

\* C8: two computations with the same parameters and the same draws give the same
\* result however many computations ran before; the sample is built from the
\* empty list in each of them and holds this computation's values only.
C8_DeterministicAndFresh ==
    /\ (SameComputation /\ refRun.tickers = ticker_list) => page.var = refRun.outcome
    /\ pc = "loop" => returns = Generated
    /\ ResultsShown => Len(page.var.histogram) = simulations

\* a later computation repeats the inputs and draws of an earlier one
C8_Witness ==
    /\ SameComputation
    /\ refRun.tickers = ticker_list
    /\ refRun.number < runs
    /\ simulations >= 2

\* the page shows the pricer's outputs for the current inputs of tab 1
PricingCurrent == page.pricing = PricingSection(S, K, T, r, vol)

\* a VaR section on the page was computed from the current inputs of tab 2
NoStaleVar == page.var.kind = "results" => page.var.inputs = VarInputs

\* C10 as stated: every change of an input is followed by a recomputation and a
\* render of the results for the new values, on both tabs, and no VaR results
\* computed from other values than the current ones are ever displayed.
C10_EveryChangeRecomputes ==
    /\ PricingCurrent /\ NoStaleVar
    /\ [][/\ PricingCurrent' /\ NoStaleVar'
          /\ PriceInputs' # PriceInputs => page'.pricing.inputs = PriceInputs'
          /\ VarInputs' # VarInputs =>
                 page'.var.kind = "results" /\ page'.var.inputs = VarInputs']_vars

\* C10 amended: a change of a pricing input is followed by the pricer's outputs for
\* the new values; a change of a VaR input renders the page without a VaR section
\* (VaR is computed only when "Calculate VaR" is pressed, from the values current
\* then); no VaR results computed from other values are ever displayed.
C10_ChangeRecomputesPricingOnly ==
    /\ PricingCurrent /\ NoStaleVar
    /\ [][/\ PricingCurrent' /\ NoStaleVar'
          /\ PriceInputs' # PriceInputs => page'.pricing.inputs = PriceInputs'
          /\ VarInputs' # VarInputs => page'.var.kind = "none"
          /\ (pc = "loop" /\ pc' = "idle") =>
                 page'.var.kind # "none" /\ VarInputs' = VarInputs]_vars

\* inputs of both tabs were changed and the page shows no VaR section
C10_Witness ==
    /\ pc = "idle"
    /\ page.var.kind = "none"
    /\ T = 0 /\ PricingCurrent
    /\ simulations = 2 /\ confidence = 99

====
